---- MODULE Spec2Model ----
(***************************************************************************)
(* Model of IPVanishManager (src/ipvanish.py): one run() after another     *)
(* against the two CSV stores.  Strings whose characters the code looks at *)
(* or that reach a file (IP addresses, CIDRs, timestamps, column names) are *)
(* sequences of one-character strings; a file is the sequence of its       *)
(* characters; the clock advances between runs.                            *)
(***************************************************************************)
EXTENDS Integers, Sequences, FiniteSets, TLC

\* ------------------------------------------------------------------ bounds
MaxRuns == 2
MaxEntries == 2
MaxAnswers == 2

\* ------------------------------------------------------- program constants
max_retries == 3

\* ------------------------------------------------------------------ strings
Range(s) == {s[i] : i \in 1..Len(s)}

\* list(set(xs)): the elements of a set in any order
Perms(S) == {p \in [1..Cardinality(S) -> S] : \A x \in S : \E i \in 1..Cardinality(S) : p[i] = x}

Dot == <<".">>

\* the pieces of a sequence of characters between the occurrences of c
RECURSIVE Split(_, _)
Split(s, c) ==
    IF \A i \in 1..Len(s) : s[i] # c
    THEN <<s>>
    ELSE LET i == CHOOSE j \in 1..Len(s) : s[j] = c /\ \A k \in 1..(j-1) : s[k] # c
         IN  <<SubSeq(s, 1, i-1)>> \o Split(SubSeq(s, i+1, Len(s)), c)

\* the pieces put together again with c between them
RECURSIVE Join(_, _)
Join(parts, c) ==
    IF Len(parts) = 0 THEN <<>>
    ELSE IF Len(parts) = 1 THEN parts[1]
    ELSE parts[1] \o <<c>> \o Join(Tail(parts), c)

\* str.split('.') on a sequence of characters
SplitDot(s) == Split(s, ".")

\* '.'.join(parts)
JoinDot(parts) == Join(parts, ".")

\* parts[:n]
Take(parts, n) == SubSeq(parts, 1, IF n < Len(parts) THEN n ELSE Len(parts))

\* mutant: the slice keeps two octets instead of three
FallbackSubnet_TwoOctets(ip) == JoinDot(Take(SplitDot(ip), 2)) \o <<".", "0", "/", "2", "4">>

\* f"{'.'.join(ip.split('.')[:3])}.0/24"
FallbackSubnet(ip) == JoinDot(Take(SplitDot(ip), 3)) \o <<".", "0", "/", "2", "4">>

\* ------------------------------------------------------------ value domains
\* Octets in decimal text, and the dotted quad a.b.c.d built from four of them.
MkIP(q) == q[1] \o Dot \o q[2] \o Dot \o q[3] \o Dot \o q[4]

Quads == { << <<"1","0">>, <<"0">>, <<"0">>, <<"2">> >>,
           << <<"1","0">>, <<"0">>, <<"0">>, <<"2","2">> >> }

\* Addresses the DNS may answer with.
IPs == {MkIP(q) : q \in Quads}

\* A wider set of addresses, for the classifier taken alone.
Octets == { <<"0">>, <<"1","0">>, <<"2","5","5">> }
WideQuads == [1..4 -> Octets]

\* Endpoint strings found in the archive.
Hosts == {"vpn1", "vpn2"}

\* Python's None, as a value of a dict read from a file
None == <<"None">>

\* A JSON number as a Python value: an int, which no string equals
Num(chars) == <<"int">> \o chars
IsNum(v) == v # <<>> /\ v[1] = "int"

\* CIDR strings the lookup service may return.
ServiceCidrs == { <<"1","0",".","0",".","0",".","0","/","8">> }

\* Other truthy values network.cidr may hold that a set can take: the
\* number 7, a string that is no CIDR, a string with a comma.
OtherCidrs == { Num(<<"7">>), <<"n","/","a">>, <<"1","0",".","0",".","0",".","0","/","8",",","x">> }

\* One archive entry: its name ends in .ovpn or not, its bytes decode as
\* UTF-8 or not, and re.search finds a remote directive (with its token) or not.
Entries ==
    {[ovpn |-> FALSE, utf8 |-> TRUE, match |-> FALSE, remote |-> ""],
     [ovpn |-> TRUE, utf8 |-> FALSE, match |-> FALSE, remote |-> ""],
     [ovpn |-> TRUE, utf8 |-> TRUE, match |-> FALSE, remote |-> ""]}
    \cup {[ovpn |-> TRUE, utf8 |-> TRUE, match |-> TRUE, remote |-> h] : h \in Hosts}

\* What one requests.get of the archive can produce: an error (transport,
\* status, bad zip) or the entries of the archive.
ArchiveResponses ==
    {[ok |-> FALSE, entries |-> <<>>]}
    \cup {[ok |-> TRUE, entries |-> es] : es \in UNION {[1..n -> Entries] : n \in 0..MaxEntries}}

\* What one resolver.resolve(server, 'A') can produce: an exception or a
\* non-empty answer.
DnsResponses ==
    {[ok |-> FALSE, answers |-> <<>>]}
    \cup {[ok |-> TRUE, answers |-> as] : as \in UNION {[1..n -> IPs] : n \in 1..MaxAnswers}}

\* What one lookup can produce: an exception inside the try block (transport,
\* status, a body that is not JSON, a body or a network that has no .get), or
\* a body whose network.cidr is absent, falsy, or truthy: a CIDR string,
\* another hashable value, or a non-empty JSON array or object (hashable =
\* FALSE: a list or a dict in Python).
LookupResponses ==
    {[ok |-> FALSE, has_cidr |-> FALSE, cidr |-> <<>>, hashable |-> TRUE],
     [ok |-> TRUE, has_cidr |-> FALSE, cidr |-> <<>>, hashable |-> TRUE],
     [ok |-> TRUE, has_cidr |-> TRUE, cidr |-> <<>>, hashable |-> TRUE]}
    \cup {[ok |-> TRUE, has_cidr |-> TRUE, cidr |-> c, hashable |-> TRUE] :
             c \in ServiceCidrs \cup OtherCidrs}
    \cup {[ok |-> TRUE, has_cidr |-> TRUE, cidr |-> c, hashable |-> FALSE] :
             c \in ServiceCidrs}

\* Outcome of one write_csv: written, open() failed (file untouched), or the
\* write failed after open(file, 'w') truncated the file, with some first
\* part of the text on disk.
WriteOutcomes == {"ok", "open_failed", "io_failed"}

\* ------------------------------------------------------------------- files
\* A file: whether it exists, and its characters.
NoFile == [exists |-> FALSE, text |-> <<>>]

IpFields == <<"ip", "first_seen", "last_seen">>
SubnetFields == <<"subnet">>

\* the column names as text
NameChars ==
    [ip |-> <<"i","p">>,
     first_seen |-> <<"f","i","r","s","t","_","s","e","e","n">>,
     last_seen |-> <<"l","a","s","t","_","s","e","e","n">>,
     subnet |-> <<"s","u","b","n","e","t">>]

\* the key a column of a header line stands for
KeyOf(name) == CHOOSE k \in DOMAIN NameChars : NameChars[k] = name

\* datetime.now().isoformat() at clock value t
Digits == <<"1", "2", "3", "4", "5", "6", "7", "8", "9">>
IsoFormat(t) == <<"T", Digits[t]>>

\* open(file_path, 'r'): universal newlines, "\r\n" and "\r" are read as "\n"
Newlines(t) ==
    LET Kept(i) == ~(t[i] = "\n" /\ i > 1 /\ t[i-1] = "\r")
        idx == SelectSeq([i \in 1..Len(t) |-> i], Kept)
    IN  [k \in 1..Len(idx) |-> IF t[idx[k]] = "\r" THEN "\n" ELSE t[idx[k]]]

\* the first position from p on where t holds one of chars, Len(t) + 1 if none
FirstOf(t, p, chars) ==
    LET hits == {i \in p..Len(t) : t[i] \in chars}
    IN  IF hits = {} THEN Len(t) + 1 ELSE CHOOSE i \in hits : \A j \in hits : i <= j

\* csv.reader on a field that opens with a quote at position p: where the
\* quote at j stands in its run of quotes (an odd place: the parser goes to
\* QUOTE_IN_QUOTED_FIELD, an even place: the quote is added to the field)
QuotePlace(t, p, j) ==
    LET start == CHOOSE i \in (p+1)..j :
                    /\ \A k \in i..j : t[k] = "\""
                    /\ (i = p + 1 \/ t[i-1] # "\"")
    IN  j - start + 1

\* the quote that closes the field opened at p, Len(t) + 1 if none does
ClosingQuote(t, p) ==
    LET ends == {j \in (p+1)..Len(t) :
                    /\ t[j] = "\""
                    /\ QuotePlace(t, p, j) % 2 = 1
                    /\ (j = Len(t) \/ t[j+1] # "\"")}
    IN  IF ends = {} THEN Len(t) + 1 ELSE CHOOSE j \in ends : \A k \in ends : j <= k

\* csv.reader (dialect excel, not strict) on the field that starts at
\* position p: what it holds, and where it ends (at a comma, a line break or
\* the end of the text). After the closing quote of a quoted field the
\* parser is IN_FIELD and adds what follows as it is.
FieldAt(t, p) ==
    IF t[p] # "\""
    THEN LET e == FirstOf(t, p, {",", "\n"})
         IN  [end |-> e, chars |-> SubSeq(t, p, e - 1)]
    ELSE LET q == ClosingQuote(t, p)
             e == FirstOf(t, q + 1, {",", "\n"})
             Added(i) == t[i] # "\"" \/ QuotePlace(t, p, i) % 2 = 0
             idx == SelectSeq([k \in 1..(q - 1 - p) |-> p + k], Added)
         IN  [end |-> e, chars |-> [k \in 1..Len(idx) |-> t[idx[k]]] \o SubSeq(t, q + 1, e - 1)]

\* csv.reader on the characters of t from position p on: the rows from here
\* on, row the fields collected of the current row, fresh = TRUE at the
\* start of a row. An empty line is the row without fields; the end of the
\* text ends the row, inside a quoted field as anywhere.
RECURSIVE ParseCsv(_, _, _, _)
ParseCsv(t, p, row, fresh) ==
    IF p > Len(t)
    THEN IF fresh THEN <<>> ELSE <<Append(row, <<>>)>>
    ELSE IF fresh /\ t[p] = "\n"
    THEN << <<>> >> \o ParseCsv(t, p + 1, <<>>, TRUE)
    ELSE LET f == FieldAt(t, p)
             fields == Append(row, f.chars)
         IN  IF f.end > Len(t) THEN <<fields>>
             ELSE IF t[f.end] = "," THEN ParseCsv(t, f.end + 1, fields, FALSE)
             ELSE <<fields>> \o ParseCsv(t, f.end + 1, <<>>, TRUE)

\* the rows csv.reader finds in a file
CsvRows(file) == ParseCsv(Newlines(file.text), 1, <<>>, TRUE)

\* csv.DictReader: fieldnames is the first row of the file
HeaderOf(rows) == IF rows = <<>> THEN <<>> ELSE Head(rows)
Header(file) == HeaderOf(CsvRows(file))

\* csv.DictReader: the rows after the first, rows without fields skipped
RowsOf(rows) ==
    LET HasFields(r) == r # <<>>
    IN  IF rows = <<>> THEN <<>> ELSE SelectSeq(Tail(rows), HasFields)
Rows(file) == RowsOf(CsvRows(file))

\* csv.DictReader: each row becomes a dict keyed by the header's names; a
\* name that occurs twice keeps its last column, and a row shorter than the
\* header has None for the missing columns (restval). The files here are
\* those the program wrote: rows lie under a whole header of its column
\* names and are never longer than it.
RowToDict(header, row) ==
    [k \in {KeyOf(header[i]) : i \in 1..Len(header)} |->
        LET i == CHOOSE j \in 1..Len(header) :
                    /\ KeyOf(header[j]) = k
                    /\ \A m \in (j+1)..Len(header) : KeyOf(header[m]) # k
        IN  IF i <= Len(row) THEN row[i] ELSE None]

\* read_csv(file_path); readable = FALSE is any exception other than the
\* file being absent.
read_csv(file, readable) ==
    IF ~file.exists THEN <<>>
    ELSE IF ~readable THEN <<>>
    ELSE LET all == CsvRows(file)
             header == HeaderOf(all)
             rows == RowsOf(all)
         IN  [i \in 1..Len(rows) |-> RowToDict(header, rows[i])]

\* csv.writer on one value: None is written as the empty string, anything
\* else as its str()
Str(v) == IF v = None THEN <<>> ELSE IF IsNum(v) THEN Tail(v) ELSE v

\* a quote inside a quoted field is written twice
RECURSIVE DoubleQuotes(_)
DoubleQuotes(f) ==
    IF f = <<>> THEN <<>>
    ELSE (IF Head(f) = "\"" THEN <<"\"", "\"">> ELSE <<Head(f)>>) \o DoubleQuotes(Tail(f))

\* QUOTE_MINIMAL: a field is quoted when it holds the delimiter, the quote
\* character or a character of the line terminator
QuoteField(f) ==
    IF \E i \in 1..Len(f) : f[i] \in {",", "\"", "\r", "\n"}
    THEN <<"\"">> \o DoubleQuotes(f) \o <<"\"">>
    ELSE f

\* csv.writer.writerow: the fields between commas, then "\r\n"; a row of one
\* empty field is written as ""
WriteRow(fields) ==
    (IF fields = << <<>> >> THEN <<"\"", "\"">>
     ELSE Join([i \in 1..Len(fields) |-> QuoteField(fields[i])], ","))
    \o <<"\r", "\n">>

\* csv.DictWriter.writerow: the dict's values in the order of fieldnames
DictToRow(fieldnames, d) == [i \in 1..Len(fieldnames) |-> Str(d[fieldnames[i]])]

\* writer.writeheader(); writer.writerows(data): the characters to be written
RECURSIVE TextOfRows(_, _)
TextOfRows(data, fieldnames) ==
    IF data = <<>> THEN <<>>
    ELSE WriteRow(DictToRow(fieldnames, Head(data))) \o TextOfRows(Tail(data), fieldnames)

TextOf(data, fieldnames) ==
    WriteRow([j \in 1..Len(fieldnames) |-> NameChars[fieldnames[j]]])
    \o TextOfRows(data, fieldnames)

\* where a failed write can stop: after any number of characters of the text
Cuts(data, fieldnames) == 0..Len(TextOf(data, fieldnames))

\* no cut: the write did not fail after open()
NoCut == 0

\* mutant: the file is opened in append mode, so the earlier text stays
write_csv_Append(file, data, fieldnames, outcome, cut) ==
    IF outcome = "open_failed" THEN file
    ELSE LET text == TextOf(data, fieldnames)
         IN  [exists |-> TRUE,
              text |-> file.text \o (IF outcome = "ok" THEN text ELSE SubSeq(text, 1, cut))]

\* The file after write_csv(file_path, data, fieldnames) with the given
\* outcome; cut is where the write stopped when it failed.
write_csv(file, data, fieldnames, outcome, cut) ==
    IF outcome = "open_failed" THEN file
    ELSE LET text == TextOf(data, fieldnames)
         IN  [exists |-> TRUE,
              text |-> IF outcome = "ok" THEN text ELSE SubSeq(text, 1, cut)]

\* ------------------------------------------------------------- retry loops
\* for attempt in range(max_retries): is there another iteration after this?
HasNextAttempt(a) == a + 1 < max_retries

\* if attempt < self.max_retries - 1: time.sleep(self.retry_delay)
SleepsAfterFailure(a) == IF a < max_retries - 1 THEN 1 ELSE 0

\* ------------------------------------------------------------- get_servers
\* f.read().decode('utf-8') raises on some .ovpn entry of the archive
DecodeRaises(entries) == \E i \in 1..Len(entries) : entries[i].ovpn /\ ~entries[i].utf8

\* the list servers built from the entries of one archive, in entry order
RECURSIVE ServersIn(_)
ServersIn(entries) ==
    IF entries = <<>> THEN <<>>
    ELSE LET e == Head(entries)
         IN  (IF e.ovpn /\ e.match THEN <<e.remote>> ELSE <<>>) \o ServersIn(Tail(entries))

\* one attempt of get_servers raises inside the try block
FetchRaises(resp) == ~resp.ok \/ DecodeRaises(resp.entries)

\* ------------------------------------------------------------------- merge
\* next((item for item in existing_ips if item['ip'] == ip), None): the
\* index of the first match, 0 for None
FindEntry(existing, ip) ==
    IF \E j \in 1..Len(existing) : existing[j].ip = ip
    THEN CHOOSE j \in 1..Len(existing) :
            existing[j].ip = ip /\ \A k \in 1..(j-1) : existing[k].ip # ip
    ELSE 0

\* mutant: a known ip gets first_seen overwritten along with last_seen
MergeOne_ResetFirstSeen(existing, ip, t) == [ip |-> ip, first_seen |-> t, last_seen |-> t]

\* the record appended to updated_ips for one resolved ip
MergeOne(existing, ip, t) ==
    LET j == FindEntry(existing, ip)
    IN  IF j # 0
        THEN [existing[j] EXCEPT !.last_seen = t]
        ELSE [ip |-> ip, first_seen |-> t, last_seen |-> t]

\* mutant: updated_ips.append(entry) is missing, so only new ips are kept
RECURSIVE MergeIPs_NoAppend(_, _, _)
MergeIPs_NoAppend(existing, resolved, t) ==
    IF resolved = <<>> THEN <<>>
    ELSE (IF FindEntry(existing, Head(resolved)) # 0
          THEN <<>>
          ELSE <<[ip |-> Head(resolved), first_seen |-> t, last_seen |-> t]>>)
         \o MergeIPs_NoAppend(existing, Tail(resolved), t)

\* updated_ips after the loop over resolved_ips
MergeIPs(existing, resolved, t) ==
    [i \in 1..Len(resolved) |-> MergeOne(existing, resolved[i], t)]

\* existing_ips after the loop: entry['last_seen'] = now writes through to
\* the dict held by existing_ips
ExistingAfterMerge(existing, resolved, t) ==
    [j \in 1..Len(existing) |->
        IF \E i \in 1..Len(resolved) : FindEntry(existing, resolved[i]) = j
        THEN [existing[j] EXCEPT !.last_seen = t]
        ELSE existing[j]]

\* -------------------------------------------------------------------- state
VARIABLES
    pc,            \* position of run()
    clock,         \* the wall clock, one tick per run
    now,           \* run(): now, empty before it is assigned
    servers,       \* run(): servers
    resolved_ips,  \* resolve_dns(): resolved_ips, then run(): resolved_ips
    existing_ips,  \* run(): existing_ips
    updated_ips,   \* run(): updated_ips
    subnets,       \* run(): subnets
    idx,           \* position of the loop over servers / resolved_ips
    attempt,       \* loop variable of the retry loop in progress
    tries,         \* attempts made by the retry loop in progress or just run out
    sleeps,        \* time.sleep calls of the retry loop in progress or just run out
    gaveup,        \* which retry loop, if any, has just run out
    ip_file,       \* ipvanish_ips.csv
    subnet_file,   \* ipvanishsubnets.csv
    before,        \* both files as they were when the run started; the IP
                   \* store's part is kept until the first lookup
    ops,           \* operations the run has performed so far
    first_obs,     \* per ip: timestamp of the run that first stored it, empty if none
    log            \* responses received so far by the retry loop under observation

vars == <<pc, clock, now, servers, resolved_ips, existing_ips, updated_ips, subnets,
          idx, attempt, tries, sleeps, gaveup, ip_file, subnet_file, before, ops,
          first_obs, log>>

locals == <<now, servers, resolved_ips, existing_ips, updated_ips, subnets, idx>>
retry == <<attempt, tries, sleeps, gaveup>>
files == <<ip_file, subnet_file>>
history == <<first_obs, log>>

Terminal == {"DiscoveryFailed", "NoIPsResolved", "Done", "FatalError"}

Init ==
    /\ pc = "Start"
    /\ clock = 1
    /\ now = <<>>
    /\ servers = <<>>
    /\ resolved_ips = <<>>
    /\ existing_ips = <<>>
    /\ updated_ips = <<>>
    /\ subnets = {}
    /\ idx = 1
    /\ attempt = 0
    /\ tries = 0
    /\ sleeps = 0
    /\ gaveup = "none"
    /\ ip_file = NoFile
    /\ subnet_file = NoFile
    /\ before = [ip |-> NoFile, subnet |-> NoFile]
    /\ ops = {}
    /\ first_obs = [ip \in IPs |-> <<>>]
    /\ log = <<>>

\* sleeps counted so far for the item the retry loop is working on
SleepsSoFar == IF attempt = 0 THEN 0 ELSE sleeps

\* the retry loop goes round again after a failed attempt
Retry(slept) ==
    /\ attempt' = attempt + 1
    /\ tries' = attempt + 1
    /\ sleeps' = SleepsSoFar + slept
    /\ gaveup' = "none"

\* the retry loop ends for this item; who = "none" when it ended by
\* success, else the loop that ran out, whose counters stay visible
EndItem(slept, who) ==
    /\ attempt' = 0
    /\ tries' = IF who = "none" THEN 0 ELSE attempt + 1
    /\ sleeps' = IF who = "none" THEN 0 ELSE SleepsSoFar + slept
    /\ gaveup' = who

\* the caller moves on: the counters of the retry loop it called are gone
LeaveRetry ==
    /\ attempt' = 0
    /\ tries' = 0
    /\ sleeps' = 0
    /\ gaveup' = "none"

\* IPVanishManager().run() is entered
Begin ==
    /\ pc = "Start"
    /\ pc' = "Discovering"
    /\ before' = [ip |-> ip_file, subnet |-> subnet_file]
    /\ ops' = {}
    /\ UNCHANGED <<clock, locals, retry, files, history>>

\* mutant: the early return on an empty server list is missing
AfterDiscovery_NoReturn(found) == "Resolving"

\* if not servers: return
AfterDiscovery(found) == IF found = <<>> THEN "DiscoveryFailed" ELSE "Resolving"

\* one iteration of the retry loop of get_servers, the request answered by resp
GetServersStep(resp) ==
    /\ pc = "Discovering"
    /\ IF ~FetchRaises(resp)
       THEN \E found \in Perms(Range(ServersIn(resp.entries))) :
               /\ servers' = found
               /\ pc' = AfterDiscovery(found)
               /\ EndItem(0, "none")
       ELSE IF HasNextAttempt(attempt)
       THEN /\ Retry(SleepsAfterFailure(attempt))
            /\ UNCHANGED <<pc, servers>>
       ELSE /\ servers' = <<>>
            /\ pc' = AfterDiscovery(<<>>)
            /\ EndItem(SleepsAfterFailure(attempt), "get_servers")
    /\ ops' = ops \cup {"get_servers"}
    /\ UNCHANGED <<clock, now, resolved_ips, existing_ips, updated_ips, subnets,
                   idx, files, before>>

GetServersAttempt == \E resp \in ArchiveResponses : GetServersStep(resp) /\ UNCHANGED history

\* the same step, with log recording the response
GetServersLogged ==
    \E resp \in ArchiveResponses :
        /\ GetServersStep(resp)
        /\ log' = Append(log, resp)
        /\ UNCHANGED first_obs

\* mutant: the early return on an empty resolved list is missing
AfterResolve_NoReturn(resolved) == "Loading"

\* if not resolved_ips: return
AfterResolve(resolved) == IF resolved = <<>> THEN "NoIPsResolved" ELSE "Loading"

\* resolve_dns is done with servers[idx]: next server, or return
\* list(set(...)); run() does not read servers again after the call
ResolveNext(acc) ==
    IF idx < Len(servers)
    THEN /\ resolved_ips' = acc
         /\ idx' = idx + 1
         /\ pc' = pc
         /\ servers' = servers
    ELSE \E out \in Perms(Range(acc)) :
            /\ resolved_ips' = out
            /\ idx' = 1
            /\ pc' = AfterResolve(out)
            /\ servers' = <<>>

\* mutant: the last record of the answer is taken
FirstAddress_Last(answers) == answers[Len(answers)]

\* answers[0].address
FirstAddress(answers) == answers[1]

\* one iteration of the retry loop of resolve_dns for servers[idx], the
\* query answered by resp
ResolveStep(resp) ==
    /\ pc = "Resolving"
    /\ IF resp.ok
       THEN /\ ResolveNext(Append(resolved_ips, FirstAddress(resp.answers)))
            /\ EndItem(0, "none")
       ELSE IF HasNextAttempt(attempt)
       THEN /\ Retry(SleepsAfterFailure(attempt))
            /\ UNCHANGED <<pc, servers, resolved_ips, idx>>
       ELSE /\ ResolveNext(resolved_ips)
            /\ EndItem(SleepsAfterFailure(attempt), "resolve_dns")
    /\ ops' = ops \cup {"resolve_dns"}
    /\ UNCHANGED <<clock, now, existing_ips, updated_ips, subnets, files, before>>

ResolveAttempt == \E resp \in DnsResponses : ResolveStep(resp) /\ UNCHANGED history

\* the same step, with log recording the name queried and the response
ResolveLogged ==
    \E resp \in DnsResponses :
        /\ ResolveStep(resp)
        /\ log' = Append(log, [name |-> servers[idx], resp |-> resp])
        /\ UNCHANGED first_obs

\* now = datetime.now().isoformat(); existing_ips = self.read_csv(self.ip_file)
LoadIPs ==
    /\ pc = "Loading"
    /\ now' = IsoFormat(clock)
    /\ \E readable \in BOOLEAN : existing_ips' = read_csv(ip_file, readable)
    /\ updated_ips' = <<>>
    /\ pc' = "Merging"
    /\ ops' = ops \cup {"read_csv"}
    /\ LeaveRetry
    /\ UNCHANGED <<clock, servers, resolved_ips, subnets, idx, files, before, history>>

\* for ip in resolved_ips: ... builds updated_ips
MergeStep ==
    /\ pc = "Merging"
    /\ updated_ips' = MergeIPs(existing_ips, resolved_ips, now)
    /\ existing_ips' = ExistingAfterMerge(existing_ips, resolved_ips, now)
    /\ pc' = "WritingIPs"
    /\ UNCHANGED <<clock, now, servers, resolved_ips, subnets, idx, retry, files,
                   before, ops, history>>

\* the ip column of a store file
StoredIPs(file) == {Rows(file)[i][1] : i \in 1..Len(Rows(file))}

\* mutant: write_csv logs the exception and does not re-raise it
AfterWrite_Swallowed(outcome, on) == on

\* where run() goes after a write_csv: on, or to the except clause
AfterWrite(outcome, on) == IF outcome = "ok" THEN on ELSE "FatalError"

\* self.write_csv(self.ip_file, updated_ips, ['ip', 'first_seen', 'last_seen']);
\* run() reads neither existing_ips nor updated_ips after the call
WriteIPsStep ==
    /\ pc = "WritingIPs"
    /\ \E outcome \in WriteOutcomes :
        \E cut \in (IF outcome = "io_failed" THEN Cuts(updated_ips, IpFields) ELSE {NoCut}) :
            /\ ip_file' = write_csv(ip_file, updated_ips, IpFields, outcome, cut)
            /\ pc' = AfterWrite(outcome, "Classifying")
    /\ ops' = ops \cup {"write_ips"}
    /\ existing_ips' = <<>>
    /\ updated_ips' = <<>>
    /\ UNCHANGED <<clock, now, servers, resolved_ips, subnets, idx, retry,
                   subnet_file, before>>

WriteIPs == WriteIPsStep /\ UNCHANGED history

\* the same step, with the history variable following the store: an ip that
\* enters the store for the first time is stamped with this run's timestamp
WriteIPsObserved ==
    /\ WriteIPsStep
    /\ first_obs' = [ip \in IPs |->
                        IF first_obs[ip] = <<>> /\ ip \in StoredIPs(ip_file') THEN now
                        ELSE first_obs[ip]]
    /\ UNCHANGED log

\* if subnet := response.json().get('network', {}).get('cidr'): absent and
\* empty are both falsy
HasCidr(resp) == resp.has_cidr /\ resp.cidr # <<>>

\* fetch_subnet_for_ip returns value for resolved_ips[idx]: the set
\* comprehension takes it and goes to the next ip, or is complete
ReturnSubnet(value) ==
    /\ subnets' = subnets \cup {value}
    /\ IF idx < Len(resolved_ips)
       THEN idx' = idx + 1 /\ pc' = pc
       ELSE idx' = 1 /\ pc' = "WritingSubnets"

\* one iteration of the retry loop of fetch_subnet_for_ip(resolved_ips[idx]),
\* the request answered by resp. A truthy cidr is returned whatever it is; a
\* list or a dict cannot enter the set that run() builds (TypeError:
\* unhashable type), subnets stays unassigned and run() goes to its except
\* clause.
ClassifyStep(resp) ==
    /\ pc = "Classifying"
    /\ LET slept == IF resp.ok THEN 0 ELSE SleepsAfterFailure(attempt)
       IN  IF resp.ok /\ HasCidr(resp) /\ ~resp.hashable
           THEN /\ subnets' = {}
                /\ idx' = 1
                /\ pc' = "FatalError"
                /\ EndItem(0, "none")
           ELSE IF resp.ok /\ HasCidr(resp)
           THEN /\ ReturnSubnet(resp.cidr)
                /\ EndItem(0, "none")
           ELSE IF HasNextAttempt(attempt)
           THEN /\ Retry(slept)
                /\ UNCHANGED <<pc, subnets, idx>>
           ELSE /\ ReturnSubnet(FallbackSubnet(resolved_ips[idx]))
                /\ EndItem(slept, "fetch_subnet_for_ip")
    /\ ops' = ops \cup {"fetch_subnet_for_ip"}
    /\ before' = [before EXCEPT !.ip = NoFile]   \* not looked at from here on
    /\ UNCHANGED <<clock, now, servers, resolved_ips, existing_ips, updated_ips, files>>

ClassifyAttempt == \E resp \in LookupResponses : ClassifyStep(resp) /\ UNCHANGED history

\* the same step, with log recording the response
ClassifyLogged ==
    \E resp \in LookupResponses :
        /\ ClassifyStep(resp)
        /\ log' = Append(log, resp)
        /\ UNCHANGED first_obs

\* [{'subnet': s} for s in subnets], in the set's iteration order
SubnetRows(order) == [i \in 1..Len(order) |-> [subnet |-> order[i]]]

\* if subnets: self.write_csv(self.subnet_file, ..., ['subnet'])
WriteSubnets ==
    /\ pc = "WritingSubnets"
    /\ IF subnets # {}
       THEN /\ \E order \in Perms(subnets), outcome \in WriteOutcomes :
                \E cut \in (IF outcome = "io_failed"
                             THEN Cuts(SubnetRows(order), SubnetFields) ELSE {NoCut}) :
                    /\ subnet_file' =
                          write_csv(subnet_file, SubnetRows(order), SubnetFields, outcome, cut)
                    /\ pc' = AfterWrite(outcome, "Done")
            /\ ops' = ops \cup {"write_subnets"}
       ELSE /\ pc' = "Done"
            /\ UNCHANGED <<subnet_file, ops>>
    /\ LeaveRetry
    /\ UNCHANGED <<clock, locals, ip_file, before, history>>

\* the process has exited; the next scheduled run starts later, with fresh
\* locals
NextRun ==
    /\ pc \in Terminal
    /\ clock < MaxRuns
    /\ pc' = "Start"
    /\ clock' = clock + 1
    /\ now' = <<>>
    /\ servers' = <<>>
    /\ resolved_ips' = <<>>
    /\ existing_ips' = <<>>
    /\ updated_ips' = <<>>
    /\ subnets' = {}
    /\ idx' = 1
    /\ LeaveRetry
    /\ before' = [ip |-> ip_file, subnet |-> subnet_file]
    /\ ops' = {}
    /\ UNCHANGED <<files, history>>

Next ==
    \/ Begin
    \/ GetServersAttempt
    \/ ResolveAttempt
    \/ LoadIPs
    \/ MergeStep
    \/ WriteIPs
    \/ ClassifyAttempt
    \/ WriteSubnets
    \/ NextRun

Spec == Init /\ [][Next]_vars

\* The same program with first_obs recording the history of the store.
NextObserved ==
    \/ Begin
    \/ GetServersAttempt
    \/ ResolveAttempt
    \/ LoadIPs
    \/ MergeStep
    \/ WriteIPsObserved
    \/ ClassifyAttempt
    \/ WriteSubnets
    \/ NextRun

SpecObserved == Init /\ [][NextObserved]_vars

\* One step of run(): a statement is executed or a call returns
RunStep ==
    \/ Begin
    \/ GetServersAttempt
    \/ ResolveAttempt
    \/ LoadIPs
    \/ MergeStep
    \/ WriteIPs
    \/ ClassifyAttempt
    \/ WriteSubnets

\* One run taken alone, never left half-way: each request returns by its
\* timeout at the latest (timeout=30, timeout=10, resolver.lifetime = 10), each
\* time.sleep(self.retry_delay) ends, and the interpreter goes on to the next
\* statement.
SpecLive == Init /\ [][RunStep]_vars /\ WF_vars(RunStep)

\* Discovery taken alone, with log holding the responses get_servers received.
NextDiscover == Begin \/ GetServersLogged

SpecDiscover == Init /\ [][NextDiscover]_vars

\* The resolver taken alone, with log holding the names queried and the
\* responses: get_servers has returned a non-empty list in the first run.
InitResolve ==
    \E names \in (SUBSET Hosts) \ {{}} :
        \E found \in Perms(names) :
            /\ pc = "Resolving"
            /\ clock = 1
            /\ now = <<>>
            /\ servers = found
            /\ resolved_ips = <<>>
            /\ existing_ips = <<>>
            /\ updated_ips = <<>>
            /\ subnets = {}
            /\ idx = 1
            /\ attempt = 0
            /\ tries = 0
            /\ sleeps = 0
            /\ gaveup = "none"
            /\ ip_file = NoFile
            /\ subnet_file = NoFile
            /\ before = [ip |-> NoFile, subnet |-> NoFile]
            /\ ops = {"get_servers"}
            /\ first_obs = [ip \in IPs |-> <<>>]
            /\ log = <<>>

NextResolve == ResolveLogged

SpecResolve == InitResolve /\ [][NextResolve]_vars

\* The classifier taken alone: run() has resolved one address out of the
\* wider set, stored it, and enters the classification of it.
InitClassify ==
    \E q \in WideQuads :
        /\ pc = "Classifying"
        /\ clock = 1
        /\ now = IsoFormat(1)
        /\ servers = <<>>
        /\ resolved_ips = <<MkIP(q)>>
        /\ existing_ips = <<>>
        /\ updated_ips = <<>>
        /\ subnets = {}
        /\ idx = 1
        /\ attempt = 0
        /\ tries = 0
        /\ sleeps = 0
        /\ gaveup = "none"
        /\ ip_file = write_csv(NoFile, MergeIPs(<<>>, <<MkIP(q)>>, IsoFormat(1)), IpFields,
                               "ok", NoCut)
        /\ subnet_file = NoFile
        /\ before = [ip |-> NoFile, subnet |-> NoFile]
        /\ ops = {"get_servers", "resolve_dns", "read_csv", "write_ips"}
        /\ first_obs = [ip \in IPs |-> <<>>]
        /\ log = <<>>

NextClassify == ClassifyAttempt

SpecClassify == InitClassify /\ [][NextClassify]_vars

\* The classifier taken alone, with log holding the responses it received.
NextLookup == ClassifyLogged

SpecLookup == InitClassify /\ [][NextLookup]_vars

\* ------------------------------------------------------------------ claims
\* the records of a store file, as a readable file is loaded
Records(file) == Range(read_csv(file, TRUE))

\* a list of records as it is read back from the file it was written to: a
\* field that was None comes back as the empty string
AsWritten(data) ==
    [i \in 1..Len(data) |->
        [k \in DOMAIN data[i] |-> IF data[i][k] = None THEN <<>> ELSE data[i][k]]]

\* the step of run() that has just written the IP store successfully
IpStoreWritten == pc = "WritingIPs" /\ pc' = "Classifying"

\* C1: a run that completes the IP merge keeps every ip of the existing store
\* in the written store, and a record whose ip was not resolved in this run
\* is written back unchanged.
C1_NonDestructiveMerge ==
    [][IpStoreWritten =>
        \A r \in Records(ip_file) :
            \E w \in Records(ip_file') :
                /\ w.ip = r.ip
                /\ (r.ip \notin Range(resolved_ips) => w = r)]_vars

\* C2: every ip in the store has first_seen equal to the timestamp of the
\* earliest run that stored it, however many runs followed and whether or
\* not the ip was missing from some of them.
C2_FirstSeenImmutable ==
    \A r \in Records(ip_file) : r.ip \in IPs => r.first_seen = first_obs[r.ip]

\* C3: the merge gives every resolved ip one record: that of the loaded store
\* with last_seen = now and first_seen as loaded, or a new one with
\* first_seen = last_seen = now; the file written holds exactly these
\* records; and a store file that does not exist loads as the empty list and
\* the run goes on.
C3_PerIpMergeStep ==
    [][/\ (pc = "Merging" /\ pc' = "WritingIPs") =>
            \A i \in 1..Len(resolved_ips) :
                LET ip == resolved_ips[i]
                    old == {e \in Range(existing_ips) : e.ip = ip}
                    new == {u \in Range(updated_ips') : u.ip = ip}
                IN  IF old # {}
                    THEN \E e \in old :
                            new = {[ip |-> ip, first_seen |-> e.first_seen, last_seen |-> now]}
                    ELSE new = {[ip |-> ip, first_seen |-> now, last_seen |-> now]}
       /\ IpStoreWritten => read_csv(ip_file', TRUE) = AsWritten(updated_ips)
       /\ (pc = "Loading" /\ ~ip_file.exists) => (existing_ips' = <<>> /\ pc' = "Merging")
      ]_vars

\* C3 witness: a store written from a merge that updated a loaded record and
\* created a new one.
C3_Witness ==
    /\ pc = "Classifying"
    /\ now = IsoFormat(2)
    /\ \E r \in Records(ip_file) : r.first_seen = IsoFormat(1) /\ r.last_seen = now
    /\ \E r \in Records(ip_file) : r.first_seen = now /\ r.last_seen = now

\* the IP store after one more merge of this run's resolved set, taken in
\* the given order, at this run's timestamp
MergedAgain(file, order) ==
    write_csv(file, MergeIPs(read_csv(file, TRUE), order, now), IpFields, "ok", NoCut)

\* C4: merging the same resolved set at the same timestamp a second time
\* leaves the IP store with the same set of records as the first merge.
C4_MergeIdempotent ==
    pc = "WritingIPs" =>
        LET once == write_csv(ip_file, updated_ips, IpFields, "ok", NoCut)
        IN  \A order \in Perms(Range(resolved_ips)) :
                LET twice == MergedAgain(once, order)
                IN  /\ Header(twice) = Header(once)
                    /\ Range(Rows(twice)) = Range(Rows(once))
                    /\ Len(Rows(twice)) = Len(Rows(once))

\* C4 witness: a merge over a store that already held one of the resolved
\* ips and lacked another.
C4_Witness ==
    /\ pc = "WritingIPs"
    /\ now = IsoFormat(2)
    /\ \E u \in Range(updated_ips) : u.first_seen = IsoFormat(1)
    /\ \E u \in Range(updated_ips) : u.first_seen = now

\* C5: a retry loop makes at most max_retries attempts for an item, and an
\* item it gives up on has cost exactly max_retries - 1 sleeps.
C5_RetryBound ==
    /\ tries <= max_retries
    /\ gaveup # "none" => (tries <= max_retries /\ sleeps = max_retries - 1)

\* a.b.c.0/24 for the dotted quad of octets q = <<a, b, c, d>>
Slash24(q) ==
    q[1] \o <<".">> \o q[2] \o <<".">> \o q[3] \o <<".", "0", "/", "2", "4">>

\* C6: when the lookups for the address a.b.c.d run out of attempts without
\* a CIDR, the subnet returned for it is exactly a.b.c.0/24.
C6_FallbackDeterminism ==
    [][(pc = "Classifying" /\ gaveup' = "fetch_subnet_for_ip") =>
        \E q \in Quads \cup WideQuads :
            /\ resolved_ips[idx] = MkIP(q)
            /\ subnets' = subnets \cup {Slash24(q)}]_vars

\* C6 witness: the lookups have run out for 255.10.0.255 after an error, an
\* empty CIDR and an error, and the subnet of the run is 255.10.0.0/24.
C6_Witness ==
    /\ gaveup = "fetch_subnet_for_ip"
    /\ sleeps = 1
    /\ resolved_ips = <<MkIP(<< <<"2","5","5">>, <<"1","0">>, <<"0">>, <<"2","5","5">> >>)>>
    /\ subnets = {<<"2","5","5",".","1","0",".","0",".","0","/","2","4">>}

\* C7: when the archive fetch fails on every attempt the run ends as
\* DiscoveryFailed having done nothing but fetch, with both store files as
\* they were when the run started.
C7_EmptyDiscoveryUntouched ==
    [][(pc = "Discovering" /\ gaveup' = "get_servers") =>
        /\ pc' = "DiscoveryFailed"
        /\ ops' = {"get_servers"}
        /\ ip_file' = before.ip
        /\ subnet_file' = before.subnet]_vars

\* C7 witness: a run ended by three failed fetches, with an IP store of
\* earlier runs on disk and no subnet store.
C7_Witness ==
    /\ pc = "DiscoveryFailed"
    /\ gaveup = "get_servers"
    /\ tries = max_retries
    /\ Len(Rows(ip_file)) > 0
    /\ ~subnet_file.exists

\* C8: when resolve_dns returns no address for a non-empty list of servers,
\* the run ends as NoIPsResolved with no store read or written and both
\* store files as they were when the run started.
C8_NoIPsResolvedUntouched ==
    [][(pc = "Resolving" /\ pc' # "Resolving" /\ resolved_ips' = <<>>) =>
        /\ servers # <<>>
        /\ pc' = "NoIPsResolved"
        /\ ops' = {"get_servers", "resolve_dns"}
        /\ ip_file' = before.ip
        /\ subnet_file' = before.subnet]_vars

\* C8 witness: a run ended with nothing resolved while a subnet store of an
\* earlier run is on disk.
C8_Witness ==
    /\ pc = "NoIPsResolved"
    /\ gaveup = "resolve_dns"
    /\ Len(Rows(subnet_file)) > 0

\* C9: when a run is Done the subnet store holds one row per subnet derived
\* in this run and nothing else, each of them the lookup's CIDR or the /24
\* of a resolved ip.
C9_SubnetStoreReplaced ==
    pc = "Done" =>
        /\ subnet_file.exists
        /\ Header(subnet_file) = <<NameChars.subnet>>
        /\ Range(Rows(subnet_file)) = {<<Str(s)>> : s \in subnets}
        /\ Len(Rows(subnet_file)) = Cardinality(subnets)
        /\ subnets # {}
        /\ Cardinality(subnets) <= Len(resolved_ips)
        /\ subnets \subseteq
              ServiceCidrs \cup OtherCidrs
                  \cup {FallbackSubnet(ip) : ip \in Range(resolved_ips)}

\* C9 witness: a Done run whose two resolved ips fell into one subnet, and
\* a subnet of the store as it was before the run is gone.
C9_Witness ==
    /\ pc = "Done"
    /\ Len(resolved_ips) = 2
    /\ Cardinality(subnets) = 1
    /\ \E row \in Range(Rows(before.subnet)) : row \notin Range(Rows(subnet_file))

\* C10: run() goes on after a write_csv only if the file holds what was to
\* be written; otherwise it ends as FatalError at once, so a failed IP-store
\* write is followed by no lookup and no subnet-store write, and FatalError
\* is where that run stays.
C10_WriteFailureIsFatal ==
    [][/\ (pc = "WritingIPs" /\ pc' # "FatalError") =>
            (pc' = "Classifying" /\ read_csv(ip_file', TRUE) = AsWritten(updated_ips))
       /\ (pc = "WritingSubnets" /\ pc' # "FatalError") =>
            (pc' = "Done" /\ Range(Rows(subnet_file')) = {<<Str(s)>> : s \in subnets})
       /\ (pc = "WritingIPs" /\ pc' = "FatalError") =>
            /\ subnet_file' = before.subnet
            /\ subnets' = {}
            /\ "fetch_subnet_for_ip" \notin ops'
            /\ "write_subnets" \notin ops'
       /\ pc = "FatalError" => (pc' = "Start" /\ ip_file' = ip_file /\ subnet_file' = subnet_file)
      ]_vars

\* C10 witness: a run ended as FatalError by its IP-store write, which left
\* the file cut inside its second row.
C10_Witness ==
    /\ pc = "FatalError"
    /\ "write_ips" \in ops
    /\ "fetch_subnet_for_ip" \notin ops
    /\ ip_file # before.ip
    /\ Len(Rows(ip_file)) = 2
    /\ Len(Rows(ip_file)[2]) < Len(IpFields)

\* no two records of a list of store records carry the same ip
UniqueIps(records) ==
    \A i, j \in 1..Len(records) : records[i].ip = records[j].ip => i = j

\* C11: ip is a unique key of the IP store. Whatever the store held before
\* and whatever the resolver answered, the list a run is about to write, and
\* every IP store on disk (each was written by a run, completely or up to
\* where the write failed), holds no two records with the same ip.
C11_IpIsUniqueKey ==
    /\ UniqueIps(read_csv(ip_file, TRUE))
    /\ pc = "WritingIPs" => UniqueIps(updated_ips)
    /\ pc \in {"Loading", "Merging", "WritingIPs", "Classifying"} =>
          \A i, j \in 1..Len(resolved_ips) : resolved_ips[i] = resolved_ips[j] => i = j

\* the state of the run's state machine that a position of run() belongs to
Phase(p) ==
    IF p \in {"Loading", "Merging", "WritingIPs", "Classifying", "WritingSubnets"}
    THEN "Classifying+Merging"
    ELSE p

\* the transitions of the run's state machine, a step inside a state included
Transitions ==
    {<<"Start", "Discovering">>,
     <<"Discovering", "Discovering">>,
     <<"Discovering", "DiscoveryFailed">>,
     <<"Discovering", "Resolving">>,
     <<"Resolving", "Resolving">>,
     <<"Resolving", "NoIPsResolved">>,
     <<"Resolving", "Classifying+Merging">>,
     <<"Classifying+Merging", "Classifying+Merging">>,
     <<"Classifying+Merging", "Done">>,
     <<"Classifying+Merging", "FatalError">>}

\* C12: a run goes Start, Discovering, Resolving, Classifying+Merging in
\* that order and leaves the order only into a terminal state; nothing
\* follows a terminal state, so a run ends in exactly one of them; a store
\* file changes only after resolve_dns has returned a non-empty list; and
\* whatever the outcomes of its calls, every run reaches a terminal state:
\* no exception gets past run(), whose last resort is FatalError.
C12_RunStateMachine ==
    /\ [][/\ pc \notin Terminal
          /\ <<Phase(pc), Phase(pc')>> \in Transitions
          /\ (ip_file' # ip_file \/ subnet_file' # subnet_file) =>
                /\ pc \in {"WritingIPs", "WritingSubnets"}
                /\ resolved_ips # <<>>
                /\ "resolve_dns" \in ops
          /\ Phase(pc') \in {"Start", "Discovering", "Resolving", "DiscoveryFailed",
                             "NoIPsResolved"} =>
                (ip_file' = NoFile /\ subnet_file' = NoFile)
         ]_vars
    /\ [](pc \notin Terminal => <>(pc \in Terminal))
    /\ [](pc \in Terminal => [](pc \in Terminal))

\* C12 witness: a run has ended as Done after going through every phase, with
\* failed attempts on the way
C12_Witness ==
    /\ pc = "Done"
    /\ ops = {"get_servers", "resolve_dns", "read_csv", "write_ips",
              "fetch_subnet_for_ip", "write_subnets"}
    /\ ip_file.exists /\ subnet_file.exists
    /\ Cardinality(subnets) = Cardinality(Hosts)

\* the last response the observed retry loop received
LastResponse(l) == l[Len(l)]

\* C13: a lookup is attempted again only after an error or a non-success
\* status. A successful response ends the attempts for that ip: the value
\* returned is the response's CIDR if network.cidr is present and non-empty,
\* and the /24 fallback if it is absent or empty.
C13_SuccessEndsLookup ==
    [][LET resp == LastResponse(log')
           ip == resolved_ips[idx]
       IN  /\ resp.ok =>
                /\ pc' = "WritingSubnets"
                /\ attempt' = 0
                /\ subnets' = {IF resp.has_cidr /\ resp.cidr # <<>> THEN resp.cidr
                               ELSE FallbackSubnet(ip)}
           /\ pc' = "Classifying" => ~resp.ok
      ]_vars

\* a string of digits and dots, a slash and a prefix length
IsCidrString(v) ==
    /\ ~IsNum(v)
    /\ \E i \in 2..(Len(v) - 1) :
          /\ v[i] = "/"
          /\ \A j \in 1..(i - 1) : v[j] \in Range(Digits) \cup {"0", "."}
          /\ \A j \in (i + 1)..Len(v) : v[j] \in Range(Digits) \cup {"0"}

\* C14: for every address and every sequence of lookup outcomes,
\* fetch_subnet_for_ip goes on until it returns, returns a CIDR string after
\* at most max_retries attempts, and raises nothing: classification is never
\* followed by FatalError.
C14_LookupTerminates ==
    /\ [][/\ pc = "Classifying"
          /\ pc' \in {"Classifying", "WritingSubnets"}
          /\ Len(log') = Len(log) + 1
          /\ Len(log') <= max_retries
          /\ pc' = "Classifying" => (Len(log') < max_retries /\ subnets' = {})
          /\ pc' = "WritingSubnets" =>
                /\ Cardinality(subnets') = 1
                /\ \A v \in subnets' : IsCidrString(v)
                /\ gaveup' = "fetch_subnet_for_ip" =>
                      (Len(log') = max_retries /\ subnets' = {FallbackSubnet(resolved_ips[idx])})
         ]_vars
    /\ [](pc = "Classifying" => ENABLED NextLookup)
    /\ [](pc \in {"Classifying", "WritingSubnets"})

\* the endpoints of the entries of an archive that are .ovpn files, decode
\* and hold a remote directive
Endpoints(entries) ==
    {entries[i].remote : i \in {k \in 1..Len(entries) :
                                  entries[k].ovpn /\ entries[k].utf8 /\ entries[k].match}}

\* C15: when the archive has been fetched, get_servers returns from that
\* attempt, without failing and without another fetch, and what it returns
\* is the endpoints of the entries that decode and hold a remote directive,
\* each once; an entry that does not decode or holds no directive is skipped.
C15_EntryFailureSkipped ==
    [][pc = "Discovering" =>
        LET resp == LastResponse(log')
        IN  resp.ok =>
              /\ pc' = AfterDiscovery(servers')
              /\ attempt' = 0
              /\ gaveup' = "none"
              /\ Range(servers') = Endpoints(resp.entries)
              /\ Len(servers') = Cardinality(Endpoints(resp.entries))
      ]_vars

\* the responses, in order, that the queries for one name received
ResponsesOf(l, n) ==
    LET IsFor(e) == e.name = n
        es == SelectSeq(l, IsFor)
    IN  [i \in 1..Len(es) |-> es[i].resp]

\* the names whose last response was an answer
Resolved(l, names) ==
    {n \in names : ResponsesOf(l, n) # <<>> /\ LastResponse(ResponsesOf(l, n)).ok}

\* the first record of each answer in a log, in the order of the log
RECURSIVE FirstRecords(_)
FirstRecords(l) ==
    IF l = <<>> THEN <<>>
    ELSE (IF Head(l).resp.ok THEN <<Head(l).resp.answers[1]>> ELSE <<>>)
         \o FirstRecords(Tail(l))

\* C16: names are resolved one by one and independently. A name is queried
\* until its first answer, whose first record it contributes, and is not
\* queried again after it; a name whose max_retries queries all fail
\* contributes nothing; the batch goes on to the last name whatever happened
\* to the others, no address collected so far is ever removed, and the list
\* returned holds each first record of the names that resolved once and
\* nothing else.
C16_ResolverIsolatesFailure ==
    /\ [](\A n \in Hosts :
            LET L == ResponsesOf(log, n)
            IN  /\ Len(L) <= max_retries
                /\ \A i \in 1..(Len(L) - 1) : ~L[i].ok)
    /\ [](pc = "Resolving" => resolved_ips = FirstRecords(log))
    /\ [][/\ pc = "Resolving"
          /\ log'[Len(log')].name = servers[idx]
          /\ \A i \in 1..Len(log) : log'[i] = log[i]
          /\ pc' = "Resolving" =>
                /\ servers' = servers
                /\ idx' \in {idx, idx + 1}
                /\ idx' = idx =>
                      LET L == ResponsesOf(log', servers[idx])
                      IN  ~LastResponse(L).ok /\ Len(L) < max_retries
          /\ (pc' # "Resolving" \/ idx' = idx + 1) =>
                LET L == ResponsesOf(log', servers[idx])
                IN  LastResponse(L).ok \/ Len(L) = max_retries
          /\ pc' # "Resolving" =>
                /\ idx = Len(servers)
                /\ pc' = AfterResolve(resolved_ips')
                /\ Range(resolved_ips') =
                      {LastResponse(ResponsesOf(log', n)).answers[1] :
                          n \in Resolved(log', Range(servers))}
                /\ \A i, j \in 1..Len(resolved_ips') :
                      resolved_ips'[i] = resolved_ips'[j] => i = j
         ]_vars

\* C16 witness: the first name failed max_retries times and was dropped, the
\* second failed once and then resolved to two records, of which the first
\* is the one returned
C16_Witness ==
    /\ pc = "Loading"
    /\ Len(log) = max_retries + 2
    /\ \A i \in 1..(Len(log) - 1) : ~log[i].resp.ok
    /\ log[max_retries].name # log[max_retries + 1].name
    /\ LET last == LastResponse(log).resp
       IN  /\ last.ok
           /\ Len(last.answers) > 1
           /\ last.answers[1] # last.answers[Len(last.answers)]
           /\ resolved_ips = <<last.answers[1]>>

\* the records of a run that knows none of its resolved ips
FreshRecords(resolved, t) ==
    [i \in 1..Len(resolved) |-> [ip |-> resolved[i], first_seen |-> t, last_seen |-> t]]

\* C17: when the IP store holds records and read_csv returns none of them
\* (the read failed), the run goes on to the merge as if the store were
\* empty, and its write replaces the store by one record per resolved ip with
\* first_seen = last_seen = now: every first_seen persisted before is gone. The
\* failed read itself never ends the run.
C17_UnreadableStoreOverwritten ==
    [][/\ (pc = "Loading" /\ Rows(ip_file) # <<>> /\ existing_ips' = <<>>) =>
            /\ pc' = "Merging"
            /\ ip_file' = ip_file
            /\ resolved_ips' = resolved_ips
       /\ (pc = "Merging" /\ Rows(ip_file) # <<>> /\ existing_ips = <<>>) =>
            /\ pc' = "WritingIPs"
            /\ existing_ips' = <<>>
            /\ updated_ips' = FreshRecords(resolved_ips, now)
       /\ (pc = "WritingIPs" /\ Rows(ip_file) # <<>> /\ existing_ips = <<>>
             /\ pc' = "Classifying") =>
            /\ read_csv(ip_file', TRUE) = FreshRecords(resolved_ips, now)
            /\ \A r \in Records(ip_file') : r.first_seen = now /\ r.last_seen = now
            /\ \A r \in Records(ip_file) : r.first_seen # now
      ]_vars

\* C17 witness: the store held an ip with an earlier first_seen when the run
\* started, and the run has written the same ip with first_seen = now
C17_Witness ==
    /\ pc = "Classifying"
    /\ "write_ips" \in ops
    /\ "fetch_subnet_for_ip" \notin ops
    /\ now = IsoFormat(2)
    /\ \E old \in Records(before.ip) : \E new \in Records(ip_file) :
          /\ old.ip = new.ip
          /\ old.first_seen = IsoFormat(1)
          /\ new.first_seen = now

\* the IP store holds, complete, what this run had to write: one record per
\* resolved ip, seen now
IpStoreUpdated ==
    /\ "write_ips" \in ops
    /\ LET stored == read_csv(ip_file, TRUE)
       IN  /\ Len(stored) = Len(resolved_ips)
           /\ \A i \in 1..Len(resolved_ips) :
                 stored[i].ip = resolved_ips[i] /\ stored[i].last_seen = now

\* the subnet store was opened for writing and the write failed: the file
\* holds some first part of the text of this run's subnets, which may be
\* nothing at all and may end inside the header or inside a row
SubnetStoreTruncated(file, found) ==
    /\ file.exists
    /\ \E order \in Perms(found) :
          LET whole == TextOf(SubnetRows(order), SubnetFields)
          IN  /\ Len(file.text) <= Len(whole)
              /\ file.text = SubSeq(whole, 1, Len(file.text))

\* C18 as stated: the IP store is completely written before any lookup and
\* any subnet-store write, no subnet store is written in a run whose IP-store
\* write failed, and a run ended as FatalError by its subnet-store write
\* leaves the IP store updated to this run's timestamp and the subnet store
\* as the previous run left it.
C18_StoresNotAtomic ==
    /\ [](("fetch_subnet_for_ip" \in ops \/ "write_subnets" \in ops) => IpStoreUpdated)
    /\ [][(pc = "WritingSubnets" /\ pc' = "FatalError") =>
            /\ IpStoreUpdated
            /\ ip_file' = ip_file /\ resolved_ips' = resolved_ips /\ now' = now
            /\ subnet_file' = before.subnet
         ]_vars

\* C18 amended: the same, except that the subnet store of a run ended by its
\* subnet-store write is either as the previous run left it (the file could
\* not be opened) or truncated: opened for writing, it holds only some first
\* part of what this run was writing.
C18_StoresNotAtomicAmended ==
    /\ [](("fetch_subnet_for_ip" \in ops \/ "write_subnets" \in ops) => IpStoreUpdated)
    /\ [][(pc = "WritingSubnets" /\ pc' = "FatalError") =>
            /\ IpStoreUpdated
            /\ ip_file' = ip_file /\ resolved_ips' = resolved_ips /\ now' = now
            /\ \/ subnet_file' = before.subnet
               \/ SubnetStoreTruncated(subnet_file', subnets)
         ]_vars

\* C18 witness: a run was ended by its subnet-store write; the IP store is
\* this run's, and of the subnet store of the previous run, which held
\* whole rows, the header and a piece of one of this run's subnets is left
C18_Witness ==
    /\ pc = "FatalError"
    /\ "write_subnets" \in ops
    /\ IpStoreUpdated
    /\ now = IsoFormat(2)
    /\ \A row \in Range(Rows(before.subnet)) : row[1] \in ServiceCidrs
    /\ Rows(before.subnet) # <<>>
    /\ Header(subnet_file) = <<NameChars.subnet>>
    /\ Len(Rows(subnet_file)) = 1
    /\ Rows(subnet_file)[1][1] \notin {Str(s) : s \in subnets}

====
